---- MODULE Spec2Model ----
(***************************************************************************)
(* Model of app/main.py of the augmentation playground: the transform      *)
(* config builder, the transform list builder, BIDS path resolution, slice *)
(* extraction and rendering, and the HTTP handlers around the process-wide *)
(* volume store and the process-wide random-number generators.             *)
(*                                                                         *)
(* JSON values are modelled by their shape: a value is absent, an object   *)
(* ("map"), or something that is no object ("notmap": a list, a number, a  *)
(* string, null).  The external libraries (torchio, nibabel, numpy, PIL)   *)
(* are not modelled beyond what the handlers observe of them: whether a    *)
(* load succeeds and with which rank, and that a composed pipeline is a    *)
(* deterministic function of its input volume, its transform list and the  *)
(* state of the three generators it may draw from.                         *)
(***************************************************************************)
EXTENDS Integers, Sequences, FiniteSets, TLC

VARIABLES
    store,      \* _VOLUME_STORE: volume id -> volume
    rng,        \* state of random / np.random / torch global generators
    rng_before, \* history: the generators when the last request arrived
    issued,     \* history: volume id -> store entry, as returned by upload/select
    fs,         \* the file system: absolute path -> node
    req,        \* the request being handled (its decoded input)
    resp        \* the response to it

vars == <<store, rng, rng_before, issued, fs, req, resp>>

-----------------------------------------------------------------------------
(* Bounds of the model *)

MaxOrderLen == 2        \* longest payload.order.spatial / .intensity list

-----------------------------------------------------------------------------
(* JSON shapes *)

Absent == [t |-> "absent"]
NotMap == [t |-> "notmap"]
NotIterable == [t |-> "notiter"]

IsDict(v) == v.t = "map"

\* Python truthiness of payload.get("enabled"): missing -> None (falsy),
\* false (falsy), true, any other truthy JSON value such as 1 or "yes".
Truthy(e) == e \in {"true", "truthy"}

\* Keys the two if-chains recognise.
SpatialKeys == {"flip", "affine", "elastic", "anisotropy", "motion", "ghosting",
                "spike", "swap"}
IntensityKeys == {"noise", "gamma", "bias", "blur"}

DefaultSpatialOrder ==
    <<"flip", "affine", "elastic", "anisotropy", "motion", "ghosting", "spike", "swap">>
DefaultIntensityOrder == <<"noise", "gamma", "bias", "blur">>

TransformName(key) ==
    CASE key = "flip" -> "RandomFlip"
      [] key = "affine" -> "RandomAffine"
      [] key = "elastic" -> "RandomElasticDeformation"
      [] key = "anisotropy" -> "RandomAnisotropy"
      [] key = "motion" -> "RandomMotion"
      [] key = "ghosting" -> "RandomGhosting"
      [] key = "spike" -> "RandomSpike"
      [] key = "swap" -> "RandomSwap"
      [] key = "noise" -> "RandomNoise"
      [] key = "gamma" -> "RandomGamma"
      [] key = "bias" -> "RandomBiasField"
      [] key = "blur" -> "RandomBlur"

\* dict.get(key) on a JSON object modelled as a function over the keys it holds.
DictGet(entries, key) == IF key \in DOMAIN entries THEN entries[key] ELSE Absent

\* Outcome of a builder: it returned a list, or it raised.
Returned(list) == [raised |-> FALSE, exc |-> "", transforms |-> list]
Raised(exc) == [raised |-> TRUE, exc |-> exc, transforms |-> <<>>]

\* float(payload.get(name, default)): the default and a JSON number convert,
\* a non-numeric value ("abc", null, a list) raises ValueError/TypeError.
FloatRaises(num) == num = "bad"

\* order.get("spatial", default) / order.get("intensity", default)
OrderList(order, which, default) ==
    LET v == IF which = "spatial" THEN order.spatial ELSE order.intensity
    IN  IF v.t = "absent" THEN [t |-> "list", items |-> default] ELSE v

\* One entry that passed the enabled test, appended by `_append` /
\* `transform_list.append`: the transform name the key's branch names, with
\* the state of its float-converted parameter (flip p, noise mean/std).
SpecOf(key, payload) == [name |-> TransformName(key), key |-> key, num |-> payload.num]

\* A variant of the spatial loop that remembers the keys it has emitted and
\* skips a repeated one.
RECURSIVE SpatialLoopDedup(_, _, _, _)
SpatialLoopDedup(entries, keys, acc, convert) ==
    IF keys = <<>> THEN Returned(acc)
    ELSE LET key == Head(keys)
             payload == DictGet(entries, key)
         IN  IF ~IsDict(payload) \/ ~Truthy(payload.enabled)
                \/ key \notin SpatialKeys
                \/ \E i \in 1..Len(acc) : acc[i].key = key
             THEN SpatialLoopDedup(entries, Tail(keys), acc, convert)
             ELSE IF key = "flip" /\ convert /\ FloatRaises(payload.num)
             THEN Raised("ValueError")
             ELSE SpatialLoopDedup(entries, Tail(keys),
                                   Append(acc, SpecOf(key, payload)), convert)

\* for key in order_spatial: ... (lines 90-156 and 208-266).  `convert` says
\* whether the flip branch applies float() to p (the config builder does,
\* the list builder passes p on as it is).
RECURSIVE SpatialLoop(_, _, _, _)
SpatialLoop(entries, keys, acc, convert) ==
    IF keys = <<>> THEN Returned(acc)
    ELSE LET key == Head(keys)
             payload == DictGet(entries, key)
         IN  IF ~IsDict(payload) \/ ~Truthy(payload.enabled)
             THEN SpatialLoop(entries, Tail(keys), acc, convert)
             ELSE IF key = "flip" /\ convert /\ FloatRaises(payload.num)
             THEN Raised("ValueError")
             ELSE IF key \in SpatialKeys
             THEN SpatialLoop(entries, Tail(keys), Append(acc, SpecOf(key, payload)),
                              convert)
             ELSE SpatialLoop(entries, Tail(keys), acc, convert)

\* for key in order_intensity: payload = intensity.get(key) ... (lines
\* 159-179 and 269-288).  `intensity` not being an object makes the first
\* intensity.get raise AttributeError; an empty order list never calls it.
RECURSIVE IntensityLoop(_, _, _, _)
IntensityLoop(intensity, keys, acc, convert) ==
    IF keys = <<>> THEN Returned(acc)
    ELSE IF ~IsDict(intensity) THEN Raised("AttributeError")
    ELSE LET key == Head(keys)
             payload == DictGet(intensity.entries, key)
         IN  IF ~IsDict(payload) \/ ~Truthy(payload.enabled)
             THEN IntensityLoop(intensity, Tail(keys), acc, convert)
             ELSE IF key = "noise" /\ convert /\ FloatRaises(payload.num)
             THEN Raised("ValueError")
             ELSE IF key \in IntensityKeys
             THEN IntensityLoop(intensity, Tail(keys), Append(acc, SpecOf(key, payload)),
                                convert)
             ELSE IntensityLoop(intensity, Tail(keys), acc, convert)

\* The body the two builders share.  transforms_payload.get("order", {}) and
\* .get("intensity", {}) default to the empty object; order.get on a value
\* that is no object raises AttributeError; iterating a value that is no
\* list raises TypeError.
BuildBody(tp, convert) ==
    LET order == IF tp.order.t = "absent"
                 THEN [t |-> "map", spatial |-> Absent, intensity |-> Absent]
                 ELSE tp.order
    IN  IF ~IsDict(order) THEN Raised("AttributeError")
        ELSE
        LET order_spatial == OrderList(order, "spatial", DefaultSpatialOrder)
            order_intensity == OrderList(order, "intensity", DefaultIntensityOrder)
        IN  IF order_spatial.t # "list" THEN Raised("TypeError")
            ELSE
            LET spatial == SpatialLoop(tp.entries, order_spatial.items, <<>>, convert)
                intensity == IF tp.intensity.t = "absent"
                             THEN [t |-> "map", entries |-> <<>>]
                             ELSE tp.intensity
            IN  IF spatial.raised THEN spatial
                ELSE IF order_intensity.t # "list" THEN Raised("TypeError")
                ELSE IntensityLoop(intensity, order_intensity.items,
                                   spatial.transforms, convert)

_build_transform_config(transforms_payload) == BuildBody(transforms_payload, TRUE)

_build_transform_list(transforms_payload) == BuildBody(transforms_payload, FALSE)

\* _build_torchio_snippet: one "tio.<name>(...)" line per config entry, in
\* config order, between the fixed header and footer lines.
_build_torchio_snippet(config) ==
    <<"import torchio as tio", "", "transform = tio.Compose([">>
    \o [i \in 1..Len(config) |-> config[i].name]
    \o <<"])">>

-----------------------------------------------------------------------------
(* Responses *)

Pending == [op |-> "none", status |-> 0, detail |-> "pending"]

\* An exception no handler catches leaves FastAPI to answer 500.
ServerError(op, exc) == [op |-> op, status |-> 500, detail |-> exc]

HTTPException(op, status_code, detail) == [op |-> op, status |-> status_code, detail |-> detail]

Is4xx(r) == r.status >= 400 /\ r.status <= 499

-----------------------------------------------------------------------------
(* export_config *)

export_config(payload) ==
    LET config == _build_transform_config(payload.transforms)
    IN  IF config.raised THEN ServerError("export-config", config.exc)
        ELSE [op |-> "export-config", status |-> 200, detail |-> "",
              config |-> config.transforms,
              python |-> _build_torchio_snippet(config.transforms)]

-----------------------------------------------------------------------------
(* Transform payloads the checks draw from *)

SeqsUpTo(S, n) == UNION {[1..k -> S] : k \in 0..n}

EntryMap(enabled, num) == [t |-> "map", enabled |-> enabled, num |-> num]
On == EntryMap("true", "absent")
Off == EntryMap("false", "absent")
OnTruthy == EntryMap("truthy", "num")
OnBad == EntryMap("true", "bad")
NoFlag == EntryMap("absent", "absent")

ListVals(tokens, n) ==
    {Absent, NotIterable} \cup {[t |-> "list", items |-> l] : l \in SeqsUpTo(tokens, n)}

\* payload.order: missing, no object, or an object with the two lists.  A
\* list may name a key of the other pass ("noise" among the spatial keys,
\* "flip" among the intensity keys), which its if-chain does not know.
OrderVals(n) ==
    {Absent, NotMap}
    \cup {[t |-> "map", spatial |-> s, intensity |-> i] :
            s \in ListVals({"flip", "affine", "noise"}, n),
            i \in ListVals({"noise", "gamma", "flip"}, n)}

TopEntries ==
    {[flip |-> f, affine |-> a, noise |-> On] :
        f \in {Absent, NotMap, Off, NoFlag, On, OnBad}, a \in {Absent, OnTruthy}}

IntensityVals ==
    {Absent, NotMap}
    \cup {[t |-> "map", entries |-> [noise |-> n, gamma |-> g, flip |-> On]] :
            n \in {Absent, On, OnBad}, g \in {Off, On}}

TransformPayloads(n) ==
    {[order |-> o, entries |-> e, intensity |-> i] :
        o \in OrderVals(n), e \in TopEntries, i \in IntensityVals}

-----------------------------------------------------------------------------
(* Arrays: a shape and the values at the zero-based index tuples *)

MaxDim == 2             \* largest axis size of the index-coded volumes

Min(a, b) == IF a <= b THEN a ELSE b
Max(a, b) == IF a >= b THEN a ELSE b

RECURSIVE IndexTuples(_)
IndexTuples(shape) ==
    IF shape = <<>> THEN {<<>>}
    ELSE {<<i>> \o rest : i \in 0..(Head(shape) - 1), rest \in IndexTuples(Tail(shape))}

\* An array: its shape and its values, a function over the index tuples.
Array(shape, values) == [shape |-> shape, data |-> values]

ndim(a) == Len(a.shape)

\* A variant that lets every array of rank 3 or more through.
RankCheckAtLeast3(volume) == ndim(volume) >= 3

\* Lines 381 and 413: `if volume.ndim != 3: raise HTTPException(400, ...)`
RankCheck(volume) == ndim(volume) = 3

\* A 3D volume whose value at (i, j, k) spells its index: 100 i + 10 j + k.
Coded(shape) ==
    LET code(p) == 100 * p[1] + 10 * p[2] + p[3]
    IN  Array(shape, [q \in IndexTuples(shape) |-> code(q)])

IndexError == [ok |-> FALSE, shape |-> <<>>, data |-> <<>>]

Plane(shape, values) == [ok |-> TRUE, shape |-> shape, data |-> values]

\* np.clip(x, lo, hi) = minimum(maximum(x, lo), hi)
np_clip(x, lo, hi) == Min(Max(x, lo), hi)

\* A variant that clips to the axis size instead of size - 1.
np_clip_to_size(x, lo, hi) == Min(Max(x, lo), hi + 1)

\* The clip of lines 68, 71 and 73.
ClipIndex(x, lo, hi) == np_clip(x, lo, hi)

\* Python's a[i] on an axis of size n: i in 0..n-1, a negative i counts from
\* the end, anything else is an IndexError.
PyIndex(n, i) == IF 0 <= i /\ i < n THEN i ELSE IF -n <= i /\ i < 0 THEN n + i ELSE -1

\* str.lower() on the axis names the checks send.
lower(s) ==
    CASE s = "Axial" -> "axial"
      [] s = "SAGITTAL" -> "sagittal"
      [] s = "Coronal" -> "coronal"
      [] OTHER -> s

_slice_from_volume(volume, axis0, index0) ==
    LET axis == lower(axis0)
        ax == IF axis = "sagittal" THEN 1 ELSE IF axis = "coronal" THEN 2 ELSE 3
        index == PyIndex(volume.shape[ax], ClipIndex(index0, 0, volume.shape[ax] - 1))
        at(p) == IF ax = 1 THEN <<index, p[1], p[2]>>
                 ELSE IF ax = 2 THEN <<p[1], index, p[2]>>
                 ELSE <<p[1], p[2], index>>
        rest == IF ax = 1 THEN <<volume.shape[2], volume.shape[3]>>
                ELSE IF ax = 2 THEN <<volume.shape[1], volume.shape[3]>>
                ELSE <<volume.shape[1], volume.shape[2]>>
        value(p) == volume.data[at(p)]
    IN  IF index < 0 THEN IndexError ELSE Plane(rest, [q \in IndexTuples(rest) |-> value(q)])

\* np.rot90(m, k=1): one counter-clockwise quarter turn of an (R, C) array:
\* the result has shape (C, R) and result[i, j] = m[j, C - 1 - i].
rot90_once(m) ==
    LET value(p) == m.data[<<p[2], m.shape[2] - 1 - p[1]>>]
    IN  Plane(<<m.shape[2], m.shape[1]>>, [q \in IndexTuples(<<m.shape[2], m.shape[1]>>) |-> value(q)])

RECURSIVE np_rot90(_, _)
np_rot90(m, k) == IF k % 4 = 0 THEN m ELSE rot90_once(np_rot90(m, (k % 4) - 1))

\* np.fliplr(m)[i, j] = m[i, C - 1 - j]
np_fliplr(m) ==
    LET value(p) == m.data[<<p[1], m.shape[2] - 1 - p[2]>>]
    IN  Plane(m.shape, [q \in IndexTuples(m.shape) |-> value(q)])

SetMin(S) == CHOOSE x \in S : \A y \in S : x <= y
SetMax(S) == CHOOSE x \in S : \A y \in S : x >= y

\* A variant that scales by the maximum alone, without subtracting the
\* minimum and without the constant-array case.
normalize_by_max(array) ==
    LET finite == {array.data[p] : p \in DOMAIN array.data}
        vmax == SetMax(finite)
        zero(p) == 0
        scaled(p) == (np_clip(array.data[p], 0, vmax) * 255) \div vmax
    IN  IF finite = {} \/ vmax <= 0 THEN Plane(array.shape, [q \in IndexTuples(array.shape) |-> zero(q)])
        ELSE Plane(array.shape, [q \in IndexTuples(array.shape) |-> scaled(q)])

\* _normalize_to_uint8 on an array of finite values (the arrays of the model
\* hold integers, so `finite` is the whole array; the scaling is exact where
\* the code computes in floating point).
_normalize_to_uint8(array) ==
    LET finite == {array.data[p] : p \in DOMAIN array.data}
        zero(p) == 0
    IN  IF finite = {} THEN Plane(array.shape, [q \in IndexTuples(array.shape) |-> zero(q)])
        ELSE LET vmin == SetMin(finite)
                 vmax == SetMax(finite)
                 scaled(p) == (np_clip(array.data[p] - vmin, 0, vmax - vmin) * 255)
                                  \div (vmax - vmin)
             IN  IF vmax <= vmin THEN Plane(array.shape, [q \in IndexTuples(array.shape) |-> zero(q)])
                 ELSE Plane(array.shape, [q \in IndexTuples(array.shape) |-> scaled(q)])

\* Lines 457-466 of preview_slice: slice, orient, normalize.
RenderSlice(transformed, axis, index) ==
    LET slice_2d == _slice_from_volume(transformed, axis, index)
        axis_lower == lower(axis)
        oriented == IF axis_lower = "axial" THEN np_rot90(slice_2d, 3)
                    ELSE IF axis_lower = "coronal" THEN np_rot90(slice_2d, 1)
                    ELSE IF axis_lower = "sagittal" THEN np_rot90(np_fliplr(slice_2d), -1)
                    ELSE slice_2d
    IN  IF ~slice_2d.ok THEN IndexError ELSE _normalize_to_uint8(oriented)

-----------------------------------------------------------------------------
(* The three process-wide generators *)

\* A generator's state: how it was last seeded (at start-up from the
\* system's entropy, or with a seed) and how much has been drawn since.
Boot == [seeded |-> FALSE, seed |-> 0, draws |-> 0]
SeededWith(s) == [seeded |-> TRUE, seed |-> s, draws |-> 0]

Draw(g, n) == [g EXCEPT !.draws = @ + n]

\* A variant that forgets torch.manual_seed.
SeedAllButTorch(r, seed_value) ==
    [py |-> SeededWith(seed_value), np |-> SeededWith(seed_value), torch |-> r.torch]

\* random.seed(v); np.random.seed(v); torch.manual_seed(v)  (lines 451-453)
SeedAll(r, seed_value) ==
    [py |-> SeededWith(seed_value), np |-> SeededWith(seed_value),
     torch |-> SeededWith(seed_value)]

\* Running the composed pipeline draws from the generators: one unit per
\* transform of the list.
AfterPipeline(r, n) == [py |-> Draw(r.py, n), np |-> Draw(r.np, n), torch |-> Draw(r.torch, n)]

\* int(seed): an integer or a string of digits converts; other text, a list
\* or NaN raises ValueError or TypeError; an infinite float raises
\* OverflowError.
NoSeed == [k |-> "none", v |-> 0]
IntOf(seed) ==
    CASE seed.k \in {"int", "digits"} -> [ok |-> TRUE, exc |-> "", v |-> seed.v]
      [] seed.k = "text" -> [ok |-> FALSE, exc |-> "ValueError", v |-> 0]
      [] seed.k = "list" -> [ok |-> FALSE, exc |-> "TypeError", v |-> 0]
      [] seed.k = "inf" -> [ok |-> FALSE, exc |-> "OverflowError", v |-> 0]

-----------------------------------------------------------------------------
(* preview_slice *)

\* Volume ids are uuid4().hex tokens; the model numbers them from 1, and 0
\* stands for a request that carries no volume_id.
NoVolumeId == 0

\* A variant whose except clause names ValueError alone.
SeedStepCatchingValueError(r, seed) ==
    IF seed.k = "none" THEN [raised |-> FALSE, exc |-> "", rng |-> r]
    ELSE LET parsed == IntOf(seed)
         IN  IF parsed.ok THEN [raised |-> FALSE, exc |-> "", rng |-> SeedAll(r, parsed.v)]
             ELSE IF parsed.exc = "ValueError"
             THEN [raised |-> FALSE, exc |-> "", rng |-> r]
             ELSE [raised |-> TRUE, exc |-> parsed.exc, rng |-> r]

\* Lines 445-453: `if seed is not None`, int(seed) with TypeError and
\* ValueError caught (seed_value = None, nothing is seeded), any other
\* exception propagating, and the three seeding calls.
SeedStep(r, seed) ==
    IF seed.k = "none" THEN [raised |-> FALSE, exc |-> "", rng |-> r]
    ELSE LET parsed == IntOf(seed)
         IN  IF parsed.ok THEN [raised |-> FALSE, exc |-> "", rng |-> SeedAll(r, parsed.v)]
             ELSE IF parsed.exc \in {"TypeError", "ValueError"}
             THEN [raised |-> FALSE, exc |-> "", rng |-> r]
             ELSE [raised |-> TRUE, exc |-> parsed.exc, rng |-> r]

\* A variant that seeds when the request arrives, whatever the list holds.
SeedingRegardless(transform_list, r, seed) == SeedStep(r, seed)

\* Line 444: `if transform_list:` guards the seeding; an empty list skips it
\* and the seed is never looked at.
Seeding(transform_list, r, seed) ==
    IF transform_list # <<>> THEN SeedStep(r, seed)
    ELSE [raised |-> FALSE, exc |-> "", rng |-> r]

\* A variant that drops the entry once it has been previewed.
StoreAfterPreviewPop(st, volume_id) == [id \in DOMAIN st \ {volume_id} |-> st[id]]

\* The handler reads _VOLUME_STORE[volume_id]["volume"] (line 437) and
\* assigns to the store nowhere.
StoreAfterPreview(st, volume_id) == st

\* The handler: the response, and the generators and the store it leaves
\* behind.  With a non-empty transform list the transformed volume is
\* torchio's: it is determined by the source volume, the list and the
\* generators' state when composed(subject) is called, and so is the image
\* cut from it.
preview_slice(payload, st, r) ==
    LET volume_id == payload.volume_id
        op == "preview"
    IN  IF volume_id = NoVolumeId \/ volume_id \notin DOMAIN st
        THEN [resp |-> HTTPException(op, 404, "Volume not found."), rng |-> r, store |-> st]
        ELSE
        LET volume == st[volume_id].volume
            transform_list == _build_transform_list(payload.transforms)
            seeding == Seeding(transform_list.transforms, r, payload.seed)
            n == Len(transform_list.transforms)
            raster == RenderSlice(volume, payload.axis, payload.index)
        IN  IF transform_list.raised
            THEN [resp |-> ServerError(op, transform_list.exc), rng |-> r, store |-> st]
            ELSE IF seeding.raised
            THEN [resp |-> ServerError(op, seeding.exc), rng |-> r, store |-> st]
            ELSE IF transform_list.transforms # <<>>
            THEN [resp |-> [op |-> op, status |-> 200, detail |-> "",
                            image |-> [kind |-> "augmented",
                                       source |-> volume,
                                       transforms |-> transform_list.transforms,
                                       entropy |-> seeding.rng,
                                       axis |-> lower(payload.axis),
                                       index |-> payload.index]],
                  rng |-> AfterPipeline(seeding.rng, n),
                  store |-> StoreAfterPreview(st, volume_id)]
            ELSE IF ~raster.ok
            THEN [resp |-> ServerError(op, "IndexError"), rng |-> seeding.rng, store |-> st]
            ELSE [resp |-> [op |-> op, status |-> 200, detail |-> "",
                            image |-> [kind |-> "plain", raster |-> raster]],
                  rng |-> seeding.rng,
                  store |-> StoreAfterPreview(st, volume_id)]

-----------------------------------------------------------------------------
(* Paths and the file system *)

MaxPathLen == 3         \* most components of a requested relative path

\* Paths are sequences of components; <<>> is "/".
BIDS_ROOT == <<"data", "bids">>

IsPrefix(base, path) ==
    /\ Len(base) <= Len(path)
    /\ \A i \in 1..Len(base) : path[i] = base[i]

Parent(path) == IF path = <<>> THEN <<>> ELSE SubSeq(path, 1, Len(path) - 1)

Dir == [kind |-> "dir"]
Link(target) == [kind |-> "link", target |-> target]
File(loads, volume) == [kind |-> "file", loads |-> loads, volume |-> volume]

Volume3D_A == Coded(<<1, 2, 1>>)
Volume3D_B == Coded(<<2, 1, 1>>)
Volume4D ==
    LET zero(p) == 0
    IN  Array(<<1, 1, 1, 2>>, [q \in IndexTuples(<<1, 1, 1, 2>>) |-> zero(q)])
Volume2D ==
    LET zero(p) == 0
    IN  Array(<<1, 2>>, [q \in IndexTuples(<<1, 2>>) |-> zero(q)])

\* A BIDS tree under /data/bids with a 3D scan, a 4D series, a file that is
\* no NIfTI file, a file nibabel cannot read, and a symbolic link that leads
\* out of the tree; outside of it, /etc with a readable NIfTI file.
FullFS ==
    (<<>> :> Dir)
    @@ (<<"data">> :> Dir)
    @@ (<<"data", "bids">> :> Dir)
    @@ (<<"data", "bids", "sub">> :> Dir)
    @@ (<<"data", "bids", "sub", "scan.nii">> :> File(TRUE, Volume3D_A))
    @@ (<<"data", "bids", "sub", "bold.nii.gz">> :> File(TRUE, Volume4D))
    @@ (<<"data", "bids", "sub", "bad.nii">> :> File(FALSE, Volume2D))
    @@ (<<"data", "bids", "sub", "notes.txt">> :> File(FALSE, Volume2D))
    @@ (<<"data", "bids", "out">> :> Link(<<"etc">>))
    @@ (<<"etc">> :> Dir)
    @@ (<<"etc", "passwd.nii">> :> File(TRUE, Volume3D_B))

\* The same machine without the BIDS directory.
NoRootFS == (<<>> :> Dir) @@ (<<"etc">> :> Dir)
            @@ (<<"etc", "passwd.nii">> :> File(TRUE, Volume3D_B))

exists(f, path) == path \in DOMAIN f
is_dir(f, path) == exists(f, path) /\ f[path].kind = "dir"
is_file(f, path) == exists(f, path) /\ f[path].kind = "file"

\* Path.suffixes of the final component, lower-cased.
suffixes(name) ==
    CASE name \in {"scan.nii", "bad.nii", "passwd.nii"} -> <<".nii">>
      [] name = "bold.nii.gz" -> <<".nii", ".gz">>
      [] name = "archive.tar.gz" -> <<".tar", ".gz">>
      [] name = "notes.txt" -> <<".txt">>
      [] OTHER -> <<>>

\* "".join(path.suffixes).lower() ends with ".nii" or ".nii.gz"
_is_nifti_path(path) ==
    LET sfx == IF path = <<>> THEN <<>> ELSE suffixes(path[Len(path)])
        n == Len(sfx)
    IN  \/ n >= 1 /\ sfx[n] = ".nii"
        \/ n >= 2 /\ sfx[n - 1] = ".nii" /\ sfx[n] = ".gz"

\* A requested path: whether it starts with "/", and its components.
EmptyPath == [abs |-> FALSE, parts |-> <<>>]
IsFalsy(rel) == rel = EmptyPath

\* BIDS_ROOT / relative_path: an absolute right operand replaces the left.
Join(base, rel) == IF rel.abs THEN rel.parts ELSE base \o rel.parts

\* Path.resolve(): walk the components from "/", dropping ".", stepping up
\* on "..", following a symbolic link to its (canonical) target, and
\* keeping the components that do not exist as they are.
RECURSIVE Walk(_, _, _)
Walk(f, cur, parts) ==
    IF parts = <<>> THEN cur
    ELSE LET c == Head(parts)
             next == Append(cur, c)
         IN  IF c = "." THEN Walk(f, cur, Tail(parts))
             ELSE IF c = ".." THEN Walk(f, Parent(cur), Tail(parts))
             ELSE IF next \in DOMAIN f /\ f[next].kind = "link"
             THEN Walk(f, f[next].target, Tail(parts))
             ELSE Walk(f, next, Tail(parts))

resolve(f, path) == Walk(f, <<>>, path)

\* A component with an embedded NUL byte ("a\x00b"): os.lstat refuses it, so
\* Path.resolve() raises ValueError when the walk reaches it.
NulName == "a%00b"
ResolveRaises(path) == \E i \in 1..Len(path) : path[i] = NulName

\* Outcomes of _resolve_bids_path: the target, the HTTPException of line 48,
\* or the ValueError that line 44 raises outside the try.
Resolved(target) == [ok |-> TRUE, raised |-> FALSE, target |-> target]
Rejected == [ok |-> FALSE, raised |-> FALSE, target |-> <<>>]
ResolveError == [ok |-> FALSE, raised |-> TRUE, target |-> <<>>]

\* target.relative_to(BIDS_ROOT.resolve()) succeeds when the resolved root
\* is a component-wise prefix of the target; a ValueError becomes HTTP 400.
_resolve_bids_path(f, relative_path) ==
    LET rel == IF IsFalsy(relative_path) THEN [abs |-> FALSE, parts |-> <<".">>]
               ELSE relative_path
        joined == Join(BIDS_ROOT, rel)
        target == resolve(f, joined)
    IN  IF ResolveRaises(joined) THEN ResolveError
        ELSE IF IsPrefix(resolve(f, BIDS_ROOT), target) THEN Resolved(target)
        ELSE Rejected

\* What a handler that works on paths reports besides status and detail:
\* the target it resolved (if it got that far) and the paths it read.
PathResponse(op, status, detail, resolved, read) ==
    [op |-> op, status |-> status, detail |-> detail, resolved |-> resolved, read |-> read]

Unresolved == Rejected

Children(f, dir) == {p \in DOMAIN f : Len(p) = Len(dir) + 1 /\ IsPrefix(dir, p)}

\* list_bids_tree: directories (a link to a directory counts) and NIfTI
\* files of the target directory.
list_bids_tree(f, path) ==
    LET op == "tree"
        r == _resolve_bids_path(f, path)
    IN  IF ~exists(f, BIDS_ROOT)
        THEN PathResponse(op, 404, "BIDS directory not found.", Unresolved, {})
        ELSE IF r.raised THEN PathResponse(op, 500, "ValueError", r, {})
        ELSE IF ~r.ok THEN PathResponse(op, 400, "Invalid BIDS path.", r, {})
        ELSE IF ~exists(f, r.target) THEN PathResponse(op, 404, "Path not found.", r, {})
        ELSE IF ~is_dir(f, r.target)
        THEN PathResponse(op, 400, "Path is not a directory.", r, {})
        ELSE [op |-> op, status |-> 200, detail |-> "", resolved |-> r,
              read |-> {r.target},
              entries |-> {[name |-> e[Len(e)],
                            type |-> IF is_dir(f, resolve(f, e)) THEN "dir" ELSE "file"] :
                           e \in {c \in Children(f, r.target) :
                                    \/ is_dir(f, resolve(f, c))
                                    \/ is_file(f, resolve(f, c)) /\ _is_nifti_path(c)}}]

get_bids_file(f, path) ==
    LET op == "file"
        r == _resolve_bids_path(f, path)
    IN  IF ~exists(f, BIDS_ROOT)
        THEN PathResponse(op, 404, "BIDS directory not found.", Unresolved, {})
        ELSE IF r.raised THEN PathResponse(op, 500, "ValueError", r, {})
        ELSE IF ~r.ok THEN PathResponse(op, 400, "Invalid BIDS path.", r, {})
        ELSE IF ~is_file(f, r.target) THEN PathResponse(op, 404, "File not found.", r, {})
        ELSE IF ~_is_nifti_path(r.target)
        THEN PathResponse(op, 400, "Only .nii or .nii.gz supported.", r, {})
        ELSE PathResponse(op, 200, "", r, {r.target})

\* select_bids_file up to the rank check: the response, and the volume to
\* store when there is one.
select_bids_file(f, payload) ==
    LET op == "select"
        r == _resolve_bids_path(f, payload.path)
        none == [stored |-> FALSE, volume |-> Volume2D]
    IN  IF ~exists(f, BIDS_ROOT)
        THEN [resp |-> PathResponse(op, 404, "BIDS directory not found.", Unresolved, {})]
             @@ none
        ELSE IF IsFalsy(payload.path)
        THEN [resp |-> PathResponse(op, 400, "Missing path.", Unresolved, {})] @@ none
        ELSE IF r.raised
        THEN [resp |-> PathResponse(op, 500, "ValueError", r, {})] @@ none
        ELSE IF ~r.ok
        THEN [resp |-> PathResponse(op, 400, "Invalid BIDS path.", r, {})] @@ none
        ELSE IF ~is_file(f, r.target)
        THEN [resp |-> PathResponse(op, 404, "File not found.", r, {})] @@ none
        ELSE IF ~_is_nifti_path(r.target)
        THEN [resp |-> PathResponse(op, 400, "Only .nii or .nii.gz supported.", r, {})]
             @@ none
        ELSE IF ~f[r.target].loads
        THEN [resp |-> PathResponse(op, 400, "Unable to read NIfTI", r, {r.target})]
             @@ none
        ELSE IF ~RankCheck(f[r.target].volume)
        THEN [resp |-> PathResponse(op, 400, "Expected a 3D NIfTI volume.", r, {r.target})]
             @@ none
        ELSE [resp |-> PathResponse(op, 200, "", r, {r.target}),
              stored |-> TRUE, volume |-> f[r.target].volume]

-----------------------------------------------------------------------------
(* Ingestion into the volume store *)

MaxVolumes == 2         \* most volumes the model's store comes to hold

VolumeIds == 1..MaxVolumes

\* upload_volume up to the rank check.  An upload is what the handler sees
\* of it: the file name, whether nibabel reads the bytes in memory, only
\* from a temporary file, or not at all, and the array it then yields.
upload_volume(file) ==
    LET op == "upload"
        sfx == suffixes(file.filename)
        suffix == IF sfx = <<>> THEN "" ELSE sfx[Len(sfx)]
        none == [stored |-> FALSE, volume |-> Volume2D]
    IN  IF file.filename = ""
        THEN [resp |-> HTTPException(op, 400, "Missing filename.")] @@ none
        ELSE IF suffix \notin {".nii", ".gz"}
        THEN [resp |-> HTTPException(op, 400, "Only .nii or .nii.gz supported.")] @@ none
        ELSE IF file.parse = "fail"
        THEN [resp |-> HTTPException(op, 400, "Unable to read NIfTI")] @@ none
        ELSE IF ~RankCheck(file.volume)
        THEN [resp |-> HTTPException(op, 400, "Expected a 3D NIfTI volume.")] @@ none
        ELSE [resp |-> [op |-> op, status |-> 200, detail |-> ""],
              stored |-> TRUE, volume |-> file.volume]

\* The tail of upload_volume and select_bids_file: a handler that got past
\* its checks draws a fresh uuid4, stores the volume under it and returns
\* the id with the shape; every other outcome leaves the store alone.
Ingest(out) ==
    IF out.stored
    THEN \E volume_id \in VolumeIds \ DOMAIN store :
            /\ store' = store @@ (volume_id :> [volume |-> out.volume])
            /\ issued' = issued @@ (volume_id :> [volume |-> out.volume])
            /\ resp' = out.resp @@ [volume_id |-> volume_id, shape |-> out.volume.shape]
    ELSE /\ resp' = out.resp
         /\ UNCHANGED <<store, issued>>

-----------------------------------------------------------------------------
(* State of the process after start-up, before any request *)

EmptyStore == [id \in {} |-> Absent]

ServerIdle ==
    /\ store = EmptyStore
    /\ issued = EmptyStore
    /\ rng = [py |-> Boot, np |-> Boot, torch |-> Boot]
    /\ rng_before = rng

-----------------------------------------------------------------------------
(* The handlers as steps: each answers the request that is waiting *)

Waiting(op) == req.op = op /\ resp = Pending

ListBidsTree ==
    /\ Waiting("tree")
    /\ resp' = list_bids_tree(fs, req.path)
    /\ UNCHANGED <<store, rng, rng_before, issued, fs, req>>

GetBidsFile ==
    /\ Waiting("file")
    /\ resp' = get_bids_file(fs, req.path)
    /\ UNCHANGED <<store, rng, rng_before, issued, fs, req>>

SelectBidsFile ==
    /\ Waiting("select")
    /\ Ingest(select_bids_file(fs, req))
    /\ UNCHANGED <<rng, rng_before, fs, req>>

UploadVolume ==
    /\ Waiting("upload")
    /\ Ingest(upload_volume(req.file))
    /\ UNCHANGED <<rng, rng_before, fs, req>>

PreviewSlice ==
    /\ Waiting("preview")
    /\ LET out == preview_slice(req, store, rng)
       IN  resp' = out.resp /\ rng' = out.rng /\ store' = out.store
    /\ UNCHANGED <<rng_before, issued, fs, req>>

ExportConfig ==
    /\ Waiting("export-config")
    /\ resp' = export_config(req)
    /\ UNCHANGED <<store, rng, rng_before, issued, fs, req>>

-----------------------------------------------------------------------------
(* SpecConfig: the config builder applied to every payload of the bound *)

InitConfig ==
    /\ ServerIdle
    /\ fs = FullFS
    /\ req \in {[op |-> "export-config", transforms |-> tp] :
                  tp \in TransformPayloads(MaxOrderLen)}
    /\ resp = Pending

NextConfig == ExportConfig

SpecConfig == InitConfig /\ [][NextConfig]_vars

ExportDone == req.op = "export-config" /\ resp.op = "export-config"

\* What the claims say of a payload, read off the payload alone.
EnabledTop(tp, key) ==
    /\ key \in DOMAIN tp.entries
    /\ tp.entries[key].t = "map"
    /\ tp.entries[key].enabled \in {"true", "truthy"}

EnabledIntensity(tp, key) ==
    /\ tp.intensity.t = "map"
    /\ key \in DOMAIN tp.intensity.entries
    /\ tp.intensity.entries[key].t = "map"
    /\ tp.intensity.entries[key].enabled \in {"true", "truthy"}

ListedSpatial(tp) ==
    IF tp.order.t = "map" /\ tp.order.spatial.t = "list"
    THEN tp.order.spatial.items ELSE DefaultSpatialOrder

ListedIntensity(tp) ==
    IF tp.order.t = "map" /\ tp.order.intensity.t = "list"
    THEN tp.order.intensity.items ELSE DefaultIntensityOrder

Occurs(seq, x) == \E i \in 1..Len(seq) : seq[i] = x

Count(seq, x) == Cardinality({i \in 1..Len(seq) : seq[i] = x})

NamesOf(specs) == [i \in 1..Len(specs) |-> specs[i].name]

KeysToNames(keys) == [i \in 1..Len(keys) |-> TransformName(keys[i])]

\* The payloads on which the builder raises instead of returning.
RaisingPayload(tp) ==
    \/ tp.order.t = "notmap"
    \/ tp.order.t = "map" /\ tp.order.spatial.t = "notiter"
    \/ tp.order.t = "map" /\ tp.order.intensity.t = "notiter"
    \/ tp.intensity.t = "notmap" /\ ListedIntensity(tp) # <<>>
    \/ /\ EnabledTop(tp, "flip") /\ tp.entries["flip"].num = "bad"
       /\ Occurs(ListedSpatial(tp), "flip")
    \/ /\ EnabledIntensity(tp, "noise") /\ tp.intensity.entries["noise"].num = "bad"
       /\ Occurs(ListedIntensity(tp), "noise")

\* C1 (as amended): the builder raises exactly on the malformed payloads of
\* C9; on every other payload it returns one spec per OCCURRENCE, in the
\* order lists, of a key that its pass recognises and whose entry is an
\* enabled mapping: the occurrences of payload.order.spatial first, in the
\* listed sequence, then those of payload.order.intensity, in the listed
\* sequence.  A key listed twice yields two specs, an enabled key that is
\* not listed yields none.
C1_OnePerListedOccurrence ==
    ExportDone =>
        LET tp == req.transforms
            spatial == SelectSeq(ListedSpatial(tp),
                         LAMBDA k : k \in SpatialKeys /\ EnabledTop(tp, k))
            intensity == SelectSeq(ListedIntensity(tp),
                         LAMBDA k : k \in IntensityKeys /\ EnabledIntensity(tp, k))
        IN  IF RaisingPayload(tp) THEN resp.status = 500
            ELSE /\ resp.status = 200
                 /\ NamesOf(resp.config) = KeysToNames(spatial \o intensity)

\* C1 witness: a custom order that lists flip twice and affine before it,
\* answered with the three spatial specs followed by an intensity spec.
C1_Witness ==
    /\ ExportDone
    /\ resp.status = 200
    /\ req.transforms.order.t = "map"
    /\ req.transforms.order.spatial = [t |-> "list", items |-> <<"flip", "flip">>]
    /\ NamesOf(resp.config) = <<"RandomFlip", "RandomFlip", "RandomNoise", "RandomGamma">>

\* C1 (as stated): whenever the builder returns, it returns exactly one spec
\* per enabled key and none for any other key.
C1_ExactlyOnePerEnabledKey ==
    (ExportDone /\ resp.status = 200) =>
        LET tp == req.transforms IN
        /\ \A k \in SpatialKeys :
              Count(NamesOf(resp.config), TransformName(k))
                = IF EnabledTop(tp, k) /\ Occurs(ListedSpatial(tp), k) THEN 1 ELSE 0
        /\ \A k \in IntensityKeys :
              Count(NamesOf(resp.config), TransformName(k))
                = IF EnabledIntensity(tp, k) /\ Occurs(ListedIntensity(tp), k) THEN 1 ELSE 0

\* C9: _build_transform_config has no error outcome: for every payload that
\* is a JSON mapping it returns a spec list and never raises.
C9_NeverRaises == ExportDone => resp.status = 200

-----------------------------------------------------------------------------
(* SpecRender: slicing and rendering applied to every input of the bound *)

\* Shape (10, 10, 10), the value at (i, j, k) is k.
RampAlongAxis2 ==
    LET ramp(p) == p[3]
    IN  Array(<<10, 10, 10>>, [q \in IndexTuples(<<10, 10, 10>>) |-> ramp(q)])

RenderVolumes ==
    {Coded(<<a, b, c>>) : a \in 1..MaxDim, b \in 1..MaxDim, c \in 1..MaxDim}
    \cup {RampAlongAxis2}

AxisNames == {"sagittal", "coronal", "axial", "Axial", "SAGITTAL", "oblique"}

Indices == (-2..(MaxDim + 1)) \cup {5, 9, 10, 12}

EmptyEntries == [k \in {} |-> Absent]

\* Transform payloads that enable nothing: the empty object, and entries
\* that are switched off.
NoTransforms == [order |-> Absent, entries |-> EmptyEntries, intensity |-> Absent]
AllOff ==
    [order |-> Absent, entries |-> [flip |-> Off, affine |-> NoFlag],
     intensity |-> [t |-> "map", entries |-> [noise |-> Off]]]

StoreOf(volume) == [id \in {1} |-> [volume |-> volume]]

InitRender ==
    /\ rng = [py |-> Boot, np |-> Boot, torch |-> Boot]
    /\ rng_before = rng
    /\ fs = FullFS
    /\ resp = Pending
    /\ \E volume \in RenderVolumes, axis \in AxisNames, index \in Indices :
          /\ store = StoreOf(volume)
          /\ issued = store
          /\ \/ req = [op |-> "slice", volume_id |-> 1, axis |-> axis, index |-> index]
             \/ \E tp \in {NoTransforms, AllOff} :
                   req = [op |-> "preview", volume_id |-> 1, axis |-> axis,
                          index |-> index, transforms |-> tp, seed |-> NoSeed]

SliceStep ==
    /\ req.op = "slice"
    /\ resp = Pending
    /\ resp' = [op |-> "slice", status |-> 200, detail |-> "",
                plane |-> _slice_from_volume(store[req.volume_id].volume, req.axis,
                                             req.index)]
    /\ UNCHANGED <<store, rng, rng_before, issued, fs, req>>

NextRender == SliceStep \/ PreviewSlice

SpecRender == InitRender /\ [][NextRender]_vars

AxisNumber(axis) ==
    IF axis \in {"sagittal", "SAGITTAL"} THEN 1
    ELSE IF axis \in {"coronal", "Coronal"} THEN 2
    ELSE IF axis \in {"axial", "Axial"} THEN 3
    ELSE 0

\* The index tuple of the volume that position p of the plane at `pos` of
\* axis number `ax` shows.
Insert(p, ax, pos) ==
    IF ax = 1 THEN <<pos, p[1], p[2]>>
    ELSE IF ax = 2 THEN <<p[1], pos, p[2]>>
    ELSE <<p[1], p[2], pos>>

\* C4: for sagittal, coronal and axial (array axis 0, 1, 2), every volume
\* and every integer index, _slice_from_volume returns the plane at position
\* min(max(index, 0), size - 1) of that axis and never raises; an index
\* beyond the bound yields the plane of the boundary index.
C4_SliceClamps ==
    (req.op = "slice" /\ resp.op = "slice" /\ AxisNumber(req.axis) # 0) =>
        LET volume == store[req.volume_id].volume
            ax == AxisNumber(req.axis)
            size == volume.shape[ax]
            pos == IF req.index < 0 THEN 0
                   ELSE IF req.index > size - 1 THEN size - 1
                   ELSE req.index
            others == SelectSeq(<<1, 2, 3>>, LAMBDA a : a # ax)
        IN  /\ resp.plane.ok
            /\ resp.plane.shape = <<volume.shape[others[1]], volume.shape[others[2]]>>
            /\ \A p \in DOMAIN resp.plane.data :
                  resp.plane.data[p] = volume.data[Insert(p, ax, pos)]
            /\ req.index > size - 1 =>
                  resp.plane = _slice_from_volume(volume, req.axis, size - 1)

\* C4 witness: a coronal slice requested two beyond the bound of a volume
\* whose axes differ in size, answered with the last coronal plane.
C4_Witness ==
    /\ req.op = "slice" /\ resp.op = "slice"
    /\ req.axis = "coronal"
    /\ store[req.volume_id].volume.shape = <<1, 2, 1>>
    /\ req.index = 3
    /\ resp.plane.ok
    /\ resp.plane.data[<<0, 0>>] = 10

PreviewOfRampAxial5 ==
    /\ req.op = "preview" /\ resp.op = "preview"
    /\ store[req.volume_id].volume = RampAlongAxis2
    /\ req.axis = "axial"
    /\ req.index = 5

\* C8 (as amended): the preview of the axial slice at index 5 of the
\* (10,10,10) volume that increases along axis 2 from 0 to 9, with no
\* transform enabled, is a 10 x 10 raster whose pixels are all 0: the slice
\* is constant (every value is 5), so max <= min and the raster is all-zero.
C8_ConstantSliceRendersBlack ==
    PreviewOfRampAxial5 =>
        /\ resp.status = 200
        /\ resp.image.kind = "plain"
        /\ resp.image.raster.shape = <<10, 10>>
        /\ \A p \in DOMAIN resp.image.raster.data : resp.image.raster.data[p] = 0

\* C8 witness: that preview has been answered with an image.
C8_Witness ==
    /\ PreviewOfRampAxial5
    /\ req.transforms = NoTransforms
    /\ resp.status = 200
    /\ Cardinality(DOMAIN resp.image.raster.data) = 100

\* C8 (as stated): the raster's pixels all have the value 5/9 * 255, cast to
\* 8 bits (141).
C8_UniformAt141 ==
    PreviewOfRampAxial5 =>
        /\ resp.status = 200
        /\ \A p \in DOMAIN resp.image.raster.data :
              resp.image.raster.data[p] = (5 * 255) \div 9

-----------------------------------------------------------------------------
(* SpecPath: the three path endpoints applied to every path of the bound *)

PathParts ==
    {"..", ".", "sub", "out", "etc", "scan.nii", "passwd.nii", "data", "bids", NulName}

RequestPaths(n) == {[abs |-> a, parts |-> ps] : a \in BOOLEAN, ps \in SeqsUpTo(PathParts, n)}

InitPath ==
    /\ ServerIdle
    /\ fs \in {FullFS, NoRootFS}
    /\ resp = Pending
    /\ req \in {[op |-> o, path |-> path] :
                  o \in {"tree", "file", "select"}, path \in RequestPaths(MaxPathLen)}

NextPath == ListBidsTree \/ GetBidsFile \/ SelectBidsFile

SpecPath == InitPath /\ [][NextPath]_vars

PathDone == req.op \in {"tree", "file", "select"} /\ resp.op = req.op

\* No component of the path is a symbolic link.
Canonical(f, path) ==
    \A k \in 1..Len(path) :
        LET prefix == SubSeq(path, 1, k)
        IN  ~(prefix \in DOMAIN f /\ f[prefix].kind = "link")

\* C5: for every relative path given to the tree, file and select
\* endpoints, resolution either yields a canonical path that is the BIDS
\* root or a descendant of it, or the request is rejected with HTTP 400;
\* "../etc" is rejected, and no request reads a directory or a file outside
\* the root.
C5_ResolutionStaysUnderRoot ==
    PathDone =>
        /\ resp.resolved.ok =>
              /\ IsPrefix(BIDS_ROOT, resp.resolved.target)
              /\ Canonical(fs, resp.resolved.target)
        /\ ~resp.resolved.ok =>
              \/ resp.status = 400
              \/ resp.status = 404 /\ ~exists(fs, BIDS_ROOT)
        /\ resp.status = 200 => resp.resolved.ok
        /\ \A p \in resp.read : IsPrefix(BIDS_ROOT, p)
        /\ (req.path = [abs |-> FALSE, parts |-> <<"..", "etc">>] /\ exists(fs, BIDS_ROOT))
              => (resp.status = 400 /\ resp.detail = "Invalid BIDS path.")
        /\ DOMAIN store # {} => IsPrefix(BIDS_ROOT, resp.resolved.target)

\* The containment half of C5, which holds of every path including those
\* Path.resolve() refuses: a resolved target is canonical and under the
\* root, an unresolved path is answered 400, 404 (no root directory) or 500
\* (the uncaught ValueError), and nothing outside the root is read or stored.
C5_NothingOutsideRootIsRead ==
    PathDone =>
        /\ resp.resolved.ok =>
              /\ IsPrefix(BIDS_ROOT, resp.resolved.target)
              /\ Canonical(fs, resp.resolved.target)
        /\ ~resp.resolved.ok =>
              \/ resp.status = 400
              \/ resp.status = 404 /\ ~exists(fs, BIDS_ROOT)
              \/ resp.status = 500 /\ resp.resolved.raised
        /\ resp.resolved.raised <=>
              (exists(fs, BIDS_ROOT) /\ ResolveRaises(req.path.parts))
        /\ resp.status = 200 => resp.resolved.ok
        /\ \A p \in resp.read : IsPrefix(BIDS_ROOT, p)
        /\ DOMAIN store # {} => IsPrefix(BIDS_ROOT, resp.resolved.target)

\* C5 witness: a select of the readable NIfTI file outside the root, named
\* through the link that leads out of the tree, has been rejected with 400
\* and has stored nothing.
C5_Witness ==
    /\ PathDone
    /\ req.op = "select"
    /\ req.path = [abs |-> FALSE, parts |-> <<"out", "passwd.nii">>]
    /\ exists(fs, BIDS_ROOT)
    /\ resp.status = 400
    /\ resp.detail = "Invalid BIDS path."
    /\ DOMAIN store = {}

-----------------------------------------------------------------------------
(* Spec: the server handling one request after another *)

MaxSeed == 1            \* largest integer seed a request carries
MaxDraws == 3           \* most draws from a generator since it was seeded

Rel(parts) == [abs |-> FALSE, parts |-> parts]

ServerPaths ==
    {EmptyPath, Rel(<<"sub">>), Rel(<<"sub", "scan.nii">>), Rel(<<"sub", "bold.nii.gz">>),
     Rel(<<"sub", "bad.nii">>), Rel(<<"sub", "notes.txt">>), Rel(<<"sub", "gone.nii">>),
     Rel(<<"..", "etc">>), Rel(<<"out", "passwd.nii">>), Rel(<<NulName>>)}

UploadFiles ==
    {[filename |-> n, parse |-> "fail", volume |-> Volume2D] :
        n \in {"", "scan.nii", "notes.txt"}}
    \cup {[filename |-> n, parse |-> how, volume |-> v] :
            n \in {"scan.nii", "archive.tar.gz"}, how \in {"memory", "disk"},
            v \in {Volume3D_A, Volume3D_B, Volume2D, Volume4D}}

FlipOn == [order |-> Absent, entries |-> [flip |-> On], intensity |-> Absent]
FlipAndNoise ==
    [order |-> Absent, entries |-> [flip |-> On],
     intensity |-> [t |-> "map", entries |-> [noise |-> On]]]
OrderNotMap == [order |-> NotMap, entries |-> [flip |-> On], intensity |-> Absent]

ServerTransforms == {NoTransforms, AllOff, FlipOn, FlipAndNoise, OrderNotMap}

Seeds ==
    {NoSeed, [k |-> "text", v |-> 0], [k |-> "list", v |-> 0], [k |-> "inf", v |-> 0],
     [k |-> "digits", v |-> MaxSeed]}
    \cup {[k |-> "int", v |-> n] : n \in 0..MaxSeed}

PreviewRequests ==
    {[op |-> "preview", volume_id |-> id, axis |-> axis, index |-> 1,
      transforms |-> tp, seed |-> seed] :
        id \in {NoVolumeId} \cup VolumeIds, axis \in {"axial", "SAGITTAL"},
        tp \in ServerTransforms, seed \in Seeds}

DrawsWithinBound(r) ==
    r.py.draws <= MaxDraws /\ r.np.draws <= MaxDraws /\ r.torch.draws <= MaxDraws

Requests ==
    {[op |-> o, path |-> path] : o \in {"tree", "file", "select"}, path \in ServerPaths}
    \cup {[op |-> "upload", file |-> file] : file \in UploadFiles}
    \cup PreviewRequests
    \cup {[op |-> "export-config", transforms |-> tp] : tp \in ServerTransforms}

\* The requests the model admits: those whose handling stays within
\* MaxVolumes stored volumes and MaxDraws draws.
WithinBounds(r) ==
    CASE r.op = "preview" -> DrawsWithinBound(preview_slice(r, store, rng).rng)
      [] r.op = "upload" -> upload_volume(r.file).stored => DOMAIN store # VolumeIds
      [] r.op = "select" -> select_bids_file(fs, r).stored => DOMAIN store # VolumeIds
      [] OTHER -> TRUE

Idle == [op |-> "none"]

Init ==
    /\ ServerIdle
    /\ fs = FullFS
    /\ req = Idle
    /\ resp = Pending

\* A request reaches the server.
Arrive ==
    /\ req = Idle
    /\ \E r \in Requests : WithinBounds(r) /\ req' = r
    /\ rng_before' = rng
    /\ UNCHANGED <<store, rng, issued, fs, resp>>

\* The response has been sent and the server waits for the next request.
Deliver ==
    /\ req # Idle
    /\ resp # Pending
    /\ req' = Idle
    /\ resp' = Pending
    /\ UNCHANGED <<store, rng, rng_before, issued, fs>>

Next ==
    \/ Arrive
    \/ ListBidsTree
    \/ GetBidsFile
    \/ SelectBidsFile
    \/ UploadVolume
    \/ PreviewSlice
    \/ ExportConfig
    \/ Deliver

Spec == Init /\ [][Next]_vars

PreviewDone == req.op = "preview" /\ resp.op = "preview"

KnownVolume == req.volume_id \in DOMAIN issued

\* The request's payload enables at least one transform / enables none.
EnablesSome(tp) ==
    LET built == _build_transform_list(tp)
    IN  ~built.raised /\ built.transforms # <<>>
EnablesNone(tp) ==
    LET built == _build_transform_list(tp)
    IN  ~built.raised /\ built.transforms = <<>>

AllSeededWith(v) == [py |-> SeededWith(v), np |-> SeededWith(v), torch |-> SeededWith(v)]

\* C2: a preview with an integer seed and a payload that enables at least
\* one transform is answered with the image that the volume loaded under
\* the id, the transform list and generators freshly seeded with the
\* request's own seed determine, whatever was handled before it: so two such
\* requests on the same stored volume get identical rasters.
C2_SeededPreviewIsDeterministic ==
    (PreviewDone /\ KnownVolume /\ req.seed.k \in {"int", "digits"}
        /\ EnablesSome(req.transforms)) =>
        /\ resp.status = 200
        /\ resp.image =
              [kind |-> "augmented",
               source |-> issued[req.volume_id].volume,
               transforms |-> _build_transform_list(req.transforms).transforms,
               entropy |-> AllSeededWith(req.seed.v),
               axis |-> lower(req.axis),
               index |-> req.index]

\* C2 witness: a seeded preview answered after the generators had been
\* seeded with another value and drawn from.
C2_Witness ==
    /\ PreviewDone /\ KnownVolume
    /\ req.seed = [k |-> "int", v |-> 1]
    /\ EnablesSome(req.transforms)
    /\ resp.status = 200
    /\ rng_before.torch = Draw(SeededWith(0), 2)
    /\ resp.image.entropy.torch = SeededWith(1)

\* C3: a preview whose payload enables no transform returns the stored
\* volume's own slice and seeds nothing, whatever seed it carries: the
\* generators are after the request as they were before it.
C3_NoTransformsNoSeeding ==
    (PreviewDone /\ KnownVolume /\ EnablesNone(req.transforms)) =>
        /\ resp.status = 200
        /\ resp.image.kind = "plain"
        /\ resp.image.raster
              = _normalize_to_uint8(
                    IF lower(req.axis) = "axial"
                    THEN np_rot90(_slice_from_volume(issued[req.volume_id].volume,
                                                     req.axis, req.index), 3)
                    ELSE np_rot90(np_fliplr(_slice_from_volume(
                                      issued[req.volume_id].volume,
                                      req.axis, req.index)), 3))
        /\ rng = rng_before

\* C3 witness: such a preview carrying an integer seed, answered while the
\* generators were in a state left by earlier seeded previews.
C3_Witness ==
    /\ PreviewDone /\ KnownVolume
    /\ EnablesNone(req.transforms)
    /\ req.seed = [k |-> "int", v |-> 1]
    /\ resp.status = 200
    /\ rng_before.torch = Draw(SeededWith(0), 1)
    /\ rng = rng_before

\* C6: every entry of the volume store holds a 3-dimensional volume; the
\* store changes only by an upload or a select that answers 200 and adds
\* one entry under an identifier that was not a key before; a request that
\* ends in a 4xx error leaves the store as it was.
C6_StoreHoldsOnly3D ==
    [][/\ \A id \in DOMAIN store' : ndim(store'[id].volume) = 3
       /\ Is4xx(resp') => store' = store
       /\ store' # store =>
             /\ resp'.op \in {"upload", "select"}
             /\ resp'.status = 200
             /\ resp'.volume_id \notin DOMAIN store
             /\ DOMAIN store' = DOMAIN store \cup {resp'.volume_id}
             /\ \A id \in DOMAIN store : store'[id] = store[id]
             /\ resp'.shape = store'[resp'.volume_id].volume.shape]_vars

\* C6 witness: an upload of a 4-dimensional array has been rejected for its
\* rank while the store holds a volume.
C6_Witness ==
    /\ req.op = "upload"
    /\ ndim(req.file.volume) = 4
    /\ resp.status = 400
    /\ resp.detail = "Expected a 3D NIfTI volume."
    /\ DOMAIN store # {}

MalformedSeed(seed) == seed.k \in {"text", "list", "inf"}

\* C7 (as amended): a preview whose seed is present but does not parse as an
\* integer is never rejected with 400. When int(seed) raises TypeError or
\* ValueError the seed is ignored and the request is answered exactly as the
\* same request without a seed (200 with an image, nothing seeded). When it
\* raises OverflowError (an infinite float) and a transform is enabled the
\* exception is not caught and the answer is 500; with no transform enabled
\* the seed is never parsed and the answer is 200.
C7_MalformedSeedIsIgnored ==
    (PreviewDone /\ KnownVolume /\ MalformedSeed(req.seed)) =>
        LET unseeded == preview_slice([req EXCEPT !.seed = NoSeed], store, rng_before)
        IN  /\ resp.status # 400
            /\ (req.seed.k \in {"text", "list"} \/ EnablesNone(req.transforms)) =>
                  /\ resp = unseeded.resp
                  /\ rng = unseeded.rng
            /\ (req.seed.k \in {"text", "list"} /\ ~_build_transform_list(req.transforms).raised)
                  => resp.status = 200
            /\ (req.seed.k = "inf" /\ EnablesSome(req.transforms)) =>
                  (resp.status = 500 /\ rng = rng_before)

\* C7 witness: a preview with a seed that is a list and an enabled
\* transform has been answered 200 with an augmented image drawn from the
\* generators as the earlier requests left them.
C7_Witness ==
    /\ PreviewDone /\ KnownVolume
    /\ req.seed.k = "list"
    /\ EnablesSome(req.transforms)
    /\ resp.status = 200
    /\ resp.image.kind = "augmented"
    /\ resp.image.entropy = rng_before
    /\ rng_before.torch.seeded

\* C7 (as stated), in the case where the seed is looked at (a stored volume,
\* a payload that enables a transform): a preview whose seed is present but
\* does not parse as an integer is rejected with HTTP 400 and returns no
\* image.
C7_MalformedSeedRejected ==
    (PreviewDone /\ KnownVolume /\ MalformedSeed(req.seed) /\ EnablesSome(req.transforms))
        => resp.status = 400

\* C10: every identifier that upload or select has returned is a key of the
\* store and maps to the volume loaded under it; a preview that names such
\* an identifier is never answered 404 and works from that volume.
C10_IssuedVolumesPersist ==
    /\ DOMAIN issued \subseteq DOMAIN store
    /\ \A id \in DOMAIN issued : store[id] = issued[id]
    /\ DOMAIN store \subseteq DOMAIN issued
    /\ (PreviewDone /\ KnownVolume) =>
          /\ resp.status # 404
          /\ (resp.status = 200 /\ resp.image.kind = "augmented")
                => resp.image.source = issued[req.volume_id].volume
          /\ (resp.status = 200 /\ resp.image.kind = "plain")
                => resp.image.raster
                     = RenderSlice(issued[req.volume_id].volume, req.axis, req.index)

\* C10 witness: two volumes have been loaded, and a preview of the first,
\* made after other previews, has been answered from it.
C10_Witness ==
    /\ DOMAIN issued = {1, 2}
    /\ PreviewDone
    /\ req.volume_id = 1
    /\ resp.status = 200
    /\ resp.image.kind = "augmented"
    /\ resp.image.source = issued[1].volume
    /\ rng_before.torch.draws > 0

====
